---- MODULE Spec2Model ----
(***************************************************************************)
(* Monte-Carlo PSF rasterisation of deeplens/monte_carlo.py:               *)
(* forward_integral (the Integrator) and assign_points_to_pixels (the      *)
(* Splatter).                                                              *)
(*                                                                         *)
(* Numbers.  The tensors hold reals; the model computes with exact         *)
(* rationals kept as integer numerators over a stated denominator:         *)
(*   - lengths (ray origins, ps, the window) are integers in one length    *)
(*     unit;                                                               *)
(*   - a weight ra is the integer k standing for k / RaDen, 0 <= k <=      *)
(*     RaDen, so RaDen stands for the weight 1;                            *)
(*   - a centre is a record [x, y, d] standing for (x/d, y/d), d > 0;      *)
(*   - the coordinates of column i of points_shift are numerators over     *)
(*     pd[i];                                                              *)
(*   - a grid is [unit, ks, cells]; the value of a cell is cells/unit.     *)
(* ray.d is left out: it only feeds obliq, which the Splatter never reads. *)
(* ps and ks are Python numbers.  A bundle without samples (spp = 0) is    *)
(* kept as one point.                                                      *)
(***************************************************************************)
EXTENDS Integers, Sequences, FiniteSets, TLC

VARIABLES entry, ray, ps, ks, pointc_ref, interpolate, single_point,
          pc, pointc, points_shift, pd, ra, i, psf

vars == <<entry, ray, ps, ks, pointc_ref, interpolate, single_point,
          pc, pointc, points_shift, pd, ra, i, psf>>

(***************************************************************************)
(* Bounds of the model and constants of the program.                       *)
(***************************************************************************)
MaxKs == 3

MaxSpp == 2

MaxPts == 2

RaDen == 2

\* EPSILON = 1 / EpsDen.  deeplens/basics.py, which defines EPSILON, is not
\* among the sources; the model takes a positive rational for it.
EpsDen == 4

\* The margin 0.01 * ps of the mask is ps / MarginDen.
MarginDen == 100

KsVals == (-1)..MaxKs

\* Even pixel sizes, so that (ks/2 - 0.5) * ps is a whole number of units.
PsVals == {50, 100}

\* pointc_ref=None: no centre (a centre has d > 0)
None == [x |-> 0, y |-> 0, d |-> 0]

RefVals == {[x |-> 0, y |-> 0, d |-> 1], [x |-> 10, y |-> -20, d |-> 1]}

(***************************************************************************)
(* Arithmetic helpers.                                                     *)
(***************************************************************************)
Abs(a) == IF a < 0 THEN -a ELSE a

Sign(a) == IF a < 0 THEN -1 ELSE 1

RECURSIVE GCD(_, _)
GCD(a, b) == IF b = 0 THEN a ELSE GCD(b, a % b)

RECURSIVE SumTo(_, _)
\* f[1] + ... + f[n]
SumTo(f, n) == IF n = 0 THEN 0 ELSE f[n] + SumTo(f, n - 1)

Spp(m) == Len(m)

NPts(m) == IF Len(m) = 0 THEN 0 ELSE Len(m[1])

\* A slice that always takes the first point
ColumnFirst(m, j) == [s \in 1..Len(m) |-> m[s][1]]

\* m[:, j]
Column(m, j) == [s \in 1..Len(m) |-> m[s][j]]

(***************************************************************************)
(* forward_integral, lines 23-38.                                          *)
(***************************************************************************)
\* points = - ray.o[..., :2]
Points(o) == [s \in 1..Len(o) |-> [j \in 1..Len(o[s]) |-> <<-o[s][j][1], -o[s][j][2]>>]]

\* psf_range[1] = (ks / 2 - 0.5) * ps ; psf_range[0] = -psf_range[1]
Half(k, p) == ((k - 1) * p) \div 2

PsfRange(k, p) == <<-Half(k, p), Half(k, p)>>

\* (points * ray.ra.unsqueeze(-1)).sum(0) / ray.ra.unsqueeze(-1).sum(0).add(EPSILON)
\* for the points and weights of one point source (one column).
PointC(pts, w) ==
    [x |-> EpsDen * SumTo([s \in 1..Len(pts) |-> pts[s][1] * w[s]], Len(pts)),
     y |-> EpsDen * SumTo([s \in 1..Len(pts) |-> pts[s][2] * w[s]], Len(pts)),
     d |-> EpsDen * SumTo(w, Len(w)) + RaDen]

\* The centre subtracted from column j: the RMS centre, or pointc_ref.
Centre(o, w, ref, j) ==
    IF ref = None THEN PointC(Column(Points(o), j), Column(w, j)) ELSE ref

\* A shift that leaves the centre out
ShiftNoCentre(p, c) == <<p[1] * c.d, p[2] * c.d>>

\* points_shift = points - centre, numerators over the centre's denominator
Shift(p, c) == <<p[1] * c.d - c.x, p[2] * c.d - c.y>>

\* A window test that keeps the sample on the threshold
InWindowInclusive(c, d, k, p) == MarginDen * Abs(c) <= (MarginDen * Half(k, p) - p) * d

\* abs(coordinate) < psf_range[1] - 0.01 * ps, for the coordinate c / d
InWindow(c, d, k, p) == MarginDen * Abs(c) < (MarginDen * Half(k, p) - p) * d

\* No mask: every sample keeps its weight
MaskedRaKeep(w, q, d, k, p) == w

\* ray.ra * (|x| < ...) * (|y| < ...)
MaskedRa(w, q, d, k, p) ==
    IF InWindow(q[1], d, k, p) /\ InWindow(q[2], d, k, p) THEN w ELSE 0

\* The in-place product left out (the numerators are still over d * RaDen)
ScaleByRaSkipped(q, w) == <<q[1] * RaDen, q[2] * RaDen>>

\* points_shift *= ra.unsqueeze(-1) ; numerators over d * RaDen
ScaleByRa(q, w) == <<q[1] * w, q[2] * w>>

\* The interpolate argument the Splatter runs with when forward_integral
\* calls it: the call passes none, so the Splatter's default applies.
SplatterInterpolate(flag) == TRUE

(***************************************************************************)
(* assign_points_to_pixels, lines 76-121.                                  *)
(***************************************************************************)
\* (c - lo) / (hi - lo) * (ks - 1) for the coordinate c / d, as [n, d] with
\* d > 0; the factor common to ks - 1 and hi - lo is cancelled.
IndexFloat(c, lo, hi, d, k) ==
    LET g == GCD(Abs(k - 1), Abs(hi - lo))
    IN  [n |-> Sign(hi - lo) * (c - lo * d) * ((k - 1) \div g),
         d |-> (Abs(hi - lo) \div g) * d]

\* pixel_indices_float of one point: row from y (flipped), column from x
RowF(p, d, k, y_range) == IndexFloat(p[2], y_range[2], y_range[1], d, k)

ColF(p, d, k, x_range) == IndexFloat(p[1], x_range[1], x_range[2], d, k)

Floor(f) == f.n \div f.d

\* the numerator of f - floor(f), over f.d
FracNum(f) == f.n % f.d

\* A top-left index rounded to the nearest lattice point
IndexTLNearest(rf, cf) == <<(2 * rf.n + rf.d) \div (2 * rf.d), (2 * cf.n + cf.d) \div (2 * cf.d)>>

\* pixel_indices_tl, _tr, _bl, _br
IndexTL(rf, cf) == <<Floor(rf), Floor(cf)>>

IndexTR(rf, cf) == <<Floor(rf), Floor(cf) + 1>>

IndexBL(rf, cf) == <<Floor(rf) + 1, Floor(cf)>>

IndexBR(rf, cf) == <<Floor(rf) + 1, Floor(cf) + 1>>

\* Puts with the bottom-right share computed as the top-right one
PutsWrongBR(rf, cf, interp) ==
    IF interp
    THEN <<[at |-> IndexTL(rf, cf), w |-> (rf.d - FracNum(rf)) * (cf.d - FracNum(cf))],
           [at |-> IndexTR(rf, cf), w |-> (rf.d - FracNum(rf)) * FracNum(cf)],
           [at |-> IndexBL(rf, cf), w |-> FracNum(rf) * (cf.d - FracNum(cf))],
           [at |-> IndexBR(rf, cf), w |-> (rf.d - FracNum(rf)) * FracNum(cf)]>>
    ELSE <<[at |-> IndexTL(rf, cf), w |-> rf.d * cf.d]>>

\* The indices one sample is put at, with the share of ra each receives
\* (numerators over rf.d * cf.d).
Puts(rf, cf, interp) ==
    IF interp
    THEN <<[at |-> IndexTL(rf, cf), w |-> (rf.d - FracNum(rf)) * (cf.d - FracNum(cf))],
           [at |-> IndexTR(rf, cf), w |-> (rf.d - FracNum(rf)) * FracNum(cf)],
           [at |-> IndexBL(rf, cf), w |-> FracNum(rf) * (cf.d - FracNum(cf))],
           [at |-> IndexBR(rf, cf), w |-> FracNum(rf) * FracNum(cf)]>>
    ELSE <<[at |-> IndexTL(rf, cf), w |-> rf.d * cf.d]>>

\* index_put_ accepts an index of -ks..ks-1 on each axis and raises otherwise
IndexOk(at, k) == /\ -k <= at[1] /\ at[1] < k
                  /\ -k <= at[2] /\ at[2] < k

\* a negative index counts from the end
Wrap(at, k) == <<at[1] % k, at[2] % k>>

\* What index_put_(..., accumulate=True) adds to cell at for one put
PutAdds(put, at, w, k) == IF Wrap(put.at, k) = at THEN put.w * w ELSE 0

\* The Splatter: [status, grid].  status is "ok" or the error raised.
assign_points_to_pixels(points, d, k, x_range, y_range, w, interp) ==
    LET n == Len(points)
        puts == [s \in 1..n |-> Puts(RowF(points[s], d, k, y_range),
                                     ColF(points[s], d, k, x_range), interp)]
        nput == IF interp THEN 4 ELSE 1
        unit == LET z == IndexFloat(0, x_range[1], x_range[2], d, k)
                    v == IndexFloat(0, y_range[2], y_range[1], d, k)
                IN  z.d * v.d * RaDen
        cell(at) == SumTo([s \in 1..n |->
                            SumTo([q \in 1..nput |-> PutAdds(puts[s][q], at, w[s], k)], nput)],
                          n)
    IN  IF k = 1
        THEN [status |-> "ZeroDivisionError", grid |-> <<>>]   \* line 80
        ELSE IF k < 0
        THEN [status |-> "RuntimeError", grid |-> <<>>]        \* torch.zeros(ks, ks)
        ELSE IF \E s \in 1..n : \E q \in 1..nput : ~IndexOk(puts[s][q].at, k)
        THEN [status |-> "IndexError", grid |-> <<>>]          \* index_put_
        ELSE [status |-> "ok",
              grid |-> [unit |-> unit, ks |-> k,
                        cells |-> [at \in (0..(k - 1)) \X (0..(k - 1)) |-> cell(at)]]]

(***************************************************************************)
(* The inputs.                                                             *)
(***************************************************************************)
\* The samples a bundle is drawn from: a position on the detector (the
\* negated ray origin) and a weight.  They lie inside the window, on its
\* edge, one and two hundredths of ps inside the edge, and at the centre.
Pool(k, p) ==
    LET h == Half(k, p)
    IN  <<[p |-> <<-1, 0>>,      ra |-> RaDen],
          [p |-> <<1, 0>>,       ra |-> RaDen],
          [p |-> <<-30, 20>>,    ra |-> 1],
          [p |-> <<h - 1, 0>>,   ra |-> RaDen],
          [p |-> <<h, 0>>,       ra |-> RaDen],
          [p |-> <<h - 2, 20>>,  ra |-> 1],
          [p |-> <<20, -30>>,    ra |-> 0],
          [p |-> <<0, -h>>,      ra |-> 0]>>

PoolLen == Len(Pool(2, 100))

\* n consecutive samples of the pool, from its a-th on, cyclically
Window(k, p, a, n) == [s \in 1..n |-> Pool(k, p)[((a + s - 2) % PoolLen) + 1]]

\* The bundle whose column j is the window starting at starts[j].  The
\* columns of a call start a fixed stride apart in the pool: every pair of
\* windows occurs as two neighbouring points.
Bundle(k, p, starts, n) ==
    [o  |-> [s \in 1..n |-> [j \in 1..Len(starts) |->
                <<-Window(k, p, starts[j], n)[s].p[1], -Window(k, p, starts[j], n)[s].p[2]>>]],
     ra |-> [s \in 1..n |-> [j \in 1..Len(starts) |-> Window(k, p, starts[j], n)[s].ra]]]

Starts(n) == IF n = 0 THEN {1} ELSE 1..PoolLen

Idle == /\ pointc = <<>> /\ points_shift = <<>> /\ pd = <<>> /\ ra = <<>>
        /\ i = 0 /\ psf = <<>>

\* A call of forward_integral(ray, ps, ks, pointc_ref, interpolate)
InitForward ==
    /\ entry = "forward_integral"
    /\ ks \in KsVals /\ ps \in PsVals
    /\ pointc_ref \in RefVals \cup {None}
    /\ interpolate \in BOOLEAN
    /\ single_point \in BOOLEAN
    /\ \E n \in 0..MaxSpp, np \in 1..MaxPts :
          /\ single_point => np = 1
          /\ \E a \in Starts(n), stride \in 0..(PoolLen - 1) :
                ray = Bundle(ks, ps, [j \in 1..np |-> ((a - 1 + (j - 1) * stride) % PoolLen) + 1], n)
    /\ pc = "start"
    /\ Idle

\* A call of assign_points_to_pixels(points, ks, x_range, y_range, ra, interpolate)
\* with x_range = y_range = the window of ks pixels of size ps
InitSplat ==
    /\ entry = "assign_points_to_pixels"
    /\ ks \in KsVals /\ ps \in PsVals
    /\ pointc_ref = None
    /\ interpolate \in BOOLEAN
    /\ single_point = TRUE
    /\ ray = [o |-> <<>>, ra |-> <<>>]
    /\ \E n \in 0..MaxSpp : \E a \in Starts(n) :
          /\ points_shift = [s \in 1..n |-> <<Window(ks, ps, a, n)[s].p>>]
          /\ ra = [s \in 1..n |-> <<Window(ks, ps, a, n)[s].ra>>]
    /\ pd = <<1>>
    /\ pointc = <<>> /\ i = 0 /\ psf = <<>>
    /\ pc = "splat"

Init == InitForward \/ InitSplat

(***************************************************************************)
(* The steps of forward_integral.                                          *)
(***************************************************************************)
\* lines 23-34: the centre and the shifted points
Center ==
    /\ pc = "start"
    /\ LET np == IF Spp(ray.o) = 0 THEN 1 ELSE NPts(ray.o)
       IN  /\ pointc' = [j \in 1..np |-> Centre(ray.o, ray.ra, pointc_ref, j)]
           /\ points_shift' = [s \in 1..Spp(ray.o) |-> [j \in 1..np |->
                                 Shift(Points(ray.o)[s][j], pointc'[j])]]
           /\ pd' = [j \in 1..np |-> pointc'[j].d]
    /\ pc' = "centered"
    /\ UNCHANGED <<entry, ray, ps, ks, pointc_ref, interpolate, single_point, ra, i, psf>>

\* lines 36-38: the mask and the in-place product with ra
RemoveInvalid ==
    /\ pc = "centered"
    /\ ra' = [s \in 1..Spp(ray.o) |-> [j \in 1..Len(pd) |->
                MaskedRa(ray.ra[s][j], points_shift[s][j], pd[j], ks, ps)]]
    /\ points_shift' = [s \in 1..Spp(ray.o) |-> [j \in 1..Len(pd) |->
                          ScaleByRa(points_shift[s][j], ra'[s][j])]]
    /\ pd' = [j \in 1..Len(pd) |-> pd[j] * RaDen]
    /\ pc' = IF single_point THEN "single" ELSE "loop"
    /\ i' = IF single_point THEN 0 ELSE 1
    /\ UNCHANGED <<entry, ray, ps, ks, pointc_ref, interpolate, single_point, pointc, psf>>

\* The Splatter's result for column j of the masked, shifted samples
SplatColumn(j, interp) ==
    assign_points_to_pixels(Column(points_shift, j), pd[j], ks,
                            PsfRange(ks, ps), PsfRange(ks, ps), Column(ra, j), interp)

\* lines 41-43 and 57: the single-point call
SplatSingle ==
    /\ pc = "single"
    /\ LET r == SplatColumn(1, SplatterInterpolate(interpolate))
       IN  IF r.status = "ok"
           THEN psf' = r.grid /\ pc' = "done"
           ELSE psf' = <<>> /\ pc' = r.status
    /\ UNCHANGED <<entry, ray, ps, ks, pointc_ref, interpolate, single_point,
                   pointc, points_shift, pd, ra, i>>

\* lines 47-53: one turn of the loop over the points
SplatMulti ==
    /\ pc = "loop"
    /\ i <= Len(pd)
    /\ LET r == SplatColumn(i, SplatterInterpolate(interpolate))
       IN  IF r.status = "ok"
           THEN psf' = Append(psf, r.grid) /\ pc' = "loop" /\ i' = i + 1
           ELSE psf' = <<>> /\ pc' = r.status /\ i' = i
    /\ UNCHANGED <<entry, ray, ps, ks, pointc_ref, interpolate, single_point,
                   pointc, points_shift, pd, ra>>

\* lines 55-57: torch.stack(psf, dim=0) and the return
Stack ==
    /\ pc = "loop"
    /\ i > Len(pd)
    /\ pc' = "done"
    /\ UNCHANGED <<entry, ray, ps, ks, pointc_ref, interpolate, single_point,
                   pointc, points_shift, pd, ra, i, psf>>

\* A direct call of the Splatter
Splat ==
    /\ pc = "splat"
    /\ LET r == SplatColumn(1, interpolate)
       IN  IF r.status = "ok"
           THEN psf' = r.grid /\ pc' = "done"
           ELSE psf' = <<>> /\ pc' = r.status
    /\ UNCHANGED <<entry, ray, ps, ks, pointc_ref, interpolate, single_point,
                   pointc, points_shift, pd, ra, i>>

Next == \/ Center
        \/ RemoveInvalid
        \/ SplatSingle
        \/ SplatMulti
        \/ Stack
        \/ Splat

Spec == Init /\ [][Next]_vars

(***************************************************************************)
(* forward_integral as a function of its arguments, for a bundle in the    *)
(* single-point layout (one column): lines 23-43 and 57.                   *)
(***************************************************************************)
forward_integral(o, w, p, k, ref, flag) ==
    LET c  == Centre(o, w, ref, 1)
        sh == [s \in 1..Len(o) |-> Shift(Points(o)[s][1], c)]
        m  == [s \in 1..Len(o) |-> MaskedRa(w[s][1], sh[s], c.d, k, p)]
        sc == [s \in 1..Len(o) |-> ScaleByRa(sh[s], m[s])]
    IN  assign_points_to_pixels(sc, c.d * RaDen, k, PsfRange(k, p), PsfRange(k, p),
                                m, SplatterInterpolate(flag))

(***************************************************************************)
(* Properties.                                                             *)
(***************************************************************************)
Forward == entry = "forward_integral"

Direct == entry = "assign_points_to_pixels"

Errors == {"ZeroDivisionError", "RuntimeError", "IndexError"}

\* masking has run: the samples are those handed to the Splatter
Handed == pc \in {"single", "loop", "splat", "done"} \cup Errors

Cols == 1..Len(pd)

Rows == 1..Len(points_shift)

\* the grid returned for point j
GridOf(j) == IF Forward /\ ~single_point THEN psf[j] ELSE psf

\* the sum over all ks * ks cells
GridSum(g) ==
    LET row(r) == SumTo([c \in 1..g.ks |-> g.cells[<<r - 1, c - 1>>]], g.ks)
    IN  SumTo([r \in 1..g.ks |-> row(r)], g.ks)

\* the centred coordinates of sample s of point j, numerators over pointc[j].d
Centred(s, j) == Shift(Points(ray.o)[s][j], pointc[j])

\* |c / d| < half_width - 0.01 * ps on both axes
Inside(q, d) ==
    /\ MarginDen * Abs(q[1]) < (MarginDen * Half(ks, ps) - ps) * d
    /\ MarginDen * Abs(q[2]) < (MarginDen * Half(ks, ps) - ps) * d

\* the total ray.ra of the unmasked samples of point j
UnmaskedRa(j) ==
    SumTo([s \in Rows |-> IF Inside(Centred(s, j), pointc[j].d) THEN ray.ra[s][j] ELSE 0],
          Len(points_shift))

\* C1: energy conservation.  A grid the Splatter returns, in either
\* incoherent mode, sums to the sum of the ra it was given; the grid
\* forward_integral returns for a point sums to the total ray.ra of the
\* point's unmasked samples.
C1_EnergyConserved ==
    (pc = "done" /\ ks >= 2) =>
        /\ \A j \in Cols :
              GridSum(GridOf(j)) = SumTo(Column(ra, j), Len(ra)) * (GridOf(j).unit \div RaDen)
        /\ Forward => \A j \in Cols :
              GridSum(GridOf(j)) = UnmaskedRa(j) * (GridOf(j).unit \div RaDen)

\* Two weighted samples of one call share their top-left cell, interpolated.
C1_Witness ==
    /\ pc = "done" /\ ks >= 2 /\ Direct /\ interpolate
    /\ Len(points_shift) = 2
    /\ ra[1][1] > 0 /\ ra[2][1] > 0
    /\ LET rf(s) == RowF(points_shift[s][1], pd[1], ks, PsfRange(ks, ps))
           cf(s) == ColF(points_shift[s][1], pd[1], ks, PsfRange(ks, ps))
       IN  /\ IndexTL(rf(1), cf(1)) = IndexTL(rf(2), cf(2))
           /\ FracNum(cf(1)) > 0

\* C2: forward_integral(..., interpolate=b) returns what the Splatter
\* produces with interpolate=b on the centred, masked samples.
C2_InterpolateForwarded ==
    (Forward /\ pc = "done") =>
        \A j \in Cols : GridOf(j) = SplatColumn(j, interpolate).grid

\* the bundle made of point j alone
OnlyPoint(m, j) == [s \in 1..Len(m) |-> <<m[s][j]>>]

\* C3: the stack has one grid per point, in input order, and grid j is the
\* grid forward_integral returns for the bundle made of point j alone.
C3_PerPointInOrder ==
    (Forward /\ ~single_point /\ pc = "done" /\ Len(ray.o) > 0) =>
        /\ Len(psf) = NPts(ray.o)
        /\ \A j \in 1..NPts(ray.o) :
              LET r == forward_integral(OnlyPoint(ray.o, j), OnlyPoint(ray.ra, j),
                                        ps, ks, pointc_ref, interpolate)
              IN  r.status = "ok" /\ psf[j] = r.grid

\* A stack of two different grids from two samples per point.
C3_Witness ==
    /\ Forward /\ ~single_point /\ pc = "done"
    /\ Len(ray.o) = 2 /\ NPts(ray.o) = 2
    /\ psf[1] # psf[2]
    /\ GridSum(psf[1]) > 0 /\ GridSum(psf[2]) > 0

\* the indices the Splatter computes for handed sample s of point j
HandedRowF(s, j) == RowF(points_shift[s][j], pd[j], ks, PsfRange(ks, ps))

HandedColF(s, j) == ColF(points_shift[s][j], pd[j], ks, PsfRange(ks, ps))

InGrid(at) == at[1] \in 0..(ks - 1) /\ at[2] \in 0..(ks - 1)

AllIndicesInGrid ==
    \A s \in Rows : \A j \in Cols :
        /\ InGrid(IndexTL(HandedRowF(s, j), HandedColF(s, j)))
        /\ InGrid(IndexTR(HandedRowF(s, j), HandedColF(s, j)))
        /\ InGrid(IndexBL(HandedRowF(s, j), HandedColF(s, j)))
        /\ InGrid(IndexBR(HandedRowF(s, j), HandedColF(s, j)))

AllRaZero ==
    /\ Forward /\ ks >= 2 /\ Len(ray.o) >= 1
    /\ \A s \in 1..Len(ray.ra) : \A j \in 1..Len(ray.ra[s]) : ray.ra[s][j] = 0

\* C4: when every ray.ra is 0, forward_integral raises nothing, the
\* computed centroid is (0,0), every index handed to the accumulation is in
\* [0, ks-1], and the grid returned is all zero.
C4_ZeroWeightDegrades ==
    AllRaZero =>
        /\ pc \notin Errors
        /\ (pc # "start" /\ pointc_ref = None) =>
              \A j \in 1..Len(pointc) : pointc[j].x = 0 /\ pointc[j].y = 0 /\ pointc[j].d > 0
        /\ Handed => AllIndicesInGrid
        /\ pc = "done" =>
              \A j \in Cols : \A at \in DOMAIN GridOf(j).cells : GridOf(j).cells[at] = 0

\* Two zero-weight samples off the centre, auto-centred, splatted.
C4_Witness ==
    /\ AllRaZero /\ pc = "done" /\ pointc_ref = None
    /\ Len(ray.o) = 2
    /\ ray.o[1][1] # <<0, 0>> /\ ray.o[2][1] # <<0, 0>>

\* C5: for every ks < 2 the call raises and returns no grid.
C5_InvalidKsFatal == ks < 2 => pc # "done"

\* |c / d| > half_width - 0.01 * ps on some axis
Exceeds(q, d) ==
    \/ MarginDen * Abs(q[1]) > (MarginDen * Half(ks, ps) - ps) * d
    \/ MarginDen * Abs(q[2]) > (MarginDen * Half(ks, ps) - ps) * d

\* |c / d| >= half_width - 0.01 * ps on some axis
AtOrBeyond(q, d) ==
    \/ MarginDen * Abs(q[1]) >= (MarginDen * Half(ks, ps) - ps) * d
    \/ MarginDen * Abs(q[2]) >= (MarginDen * Half(ks, ps) - ps) * d

\* C6 as stated: a weight is zeroed exactly when the centred coordinate
\* exceeds half_width - 0.01 * ps on some axis; any other weight is kept.
C6_ZeroedWhenExceeds ==
    (Forward /\ Handed) =>
        \A s \in Rows : \A j \in Cols :
            ra[s][j] = IF Exceeds(Centred(s, j), pointc[j].d) THEN 0 ELSE ray.ra[s][j]

\* C6 amended: a weight is zeroed exactly when the centred coordinate is at
\* or beyond half_width - 0.01 * ps on some axis; any other weight is kept.
\* A sample at half_width on an axis is zeroed; a sample at
\* half_width - 0.02 * ps on one axis and inside on the other keeps its weight.
C6_ZeroedAtOrBeyond ==
    (Forward /\ Handed) =>
        \A s \in Rows : \A j \in Cols :
            LET q == Centred(s, j)
                d == pointc[j].d
            IN  /\ ra[s][j] = IF AtOrBeyond(q, d) THEN 0 ELSE ray.ra[s][j]
                /\ (Abs(q[1]) = Half(ks, ps) * d \/ Abs(q[2]) = Half(ks, ps) * d)
                      => ra[s][j] = 0
                /\ (/\ MarginDen * Abs(q[1]) = (MarginDen * Half(ks, ps) - 2 * ps) * d
                    /\ MarginDen * Abs(q[2]) < (MarginDen * Half(ks, ps) - ps) * d)
                      => ra[s][j] = ray.ra[s][j]

\* A weighted sample exactly on the threshold, one at half_width and one at
\* half_width - 0.02 * ps have been masked.
C6_Witness ==
    /\ Forward /\ pc = "done" /\ ks >= 2
    /\ \E s \in Rows : \E j \in Cols :
          /\ ray.ra[s][j] > 0
          /\ MarginDen * Abs(Centred(s, j)[1])
                = (MarginDen * Half(ks, ps) - ps) * pointc[j].d
          /\ Centred(s, j)[2] = 0
    /\ \E s \in Rows : \E j \in Cols :
          /\ ray.ra[s][j] > 0
          /\ \/ MarginDen * Abs(Centred(s, j)[1])
                   = (MarginDen * Half(ks, ps) - 2 * ps) * pointc[j].d
             \/ Abs(Centred(s, j)[1]) = Half(ks, ps) * pointc[j].d

(***************************************************************************)
(* C7.                                                                     *)
(***************************************************************************)
\* the translations tried
TVals == {<<7, -3>>, <<-40, 0>>}

\* the bundle whose points are those of o moved by t (points = - o)
Translate(o, t) == [s \in 1..Len(o) |-> <<<<o[s][1][1] - t[1], o[s][1][2] - t[2]>>>>]

\* the centre c moved by t
Moved(c, t) == [x |-> c.x + t[1] * c.d, y |-> c.y + t[2] * c.d, d |-> c.d]

SumRa(w) == SumTo([s \in 1..Len(w) |-> w[s][1]], Len(w))

SumPRa(o, w, a) == SumTo([s \in 1..Len(o) |-> (-o[s][1][a]) * w[s][1]], Len(o))

\* the energy-weighted centroid, sum(point * ra) / sum(ra)
WeightedCentroid(o, w) == [x |-> SumPRa(o, w, 1), y |-> SumPRa(o, w, 2), d |-> SumRa(w)]

\* sum(point * ra) / (sum(ra) + EPSILON)
GuardedCentroid(o, w) ==
    [x |-> EpsDen * SumPRa(o, w, 1), y |-> EpsDen * SumPRa(o, w, 2),
     d |-> EpsDen * SumRa(w) + RaDen]

\* the value n / d in lowest terms
Reduced(n, d) == <<n \div GCD(n, d), d \div GCD(n, d)>>

\* two results of forward_integral with the same cell values
SamePsf(r1, r2) ==
    /\ r1.status = "ok" /\ r2.status = "ok"
    /\ DOMAIN r1.grid.cells = DOMAIN r2.grid.cells
    /\ \A at \in DOMAIN r1.grid.cells :
          Reduced(r1.grid.cells[at], r1.grid.unit) = Reduced(r2.grid.cells[at], r2.grid.unit)

Returned == [status |-> "ok", grid |-> psf]

\* a single point, two samples at p and -p with the same weight
SymmetricPair ==
    /\ Len(ray.o) = 2
    /\ ray.o[1][1] = <<-ray.o[2][1][1], -ray.o[2][1][2]>>
    /\ ray.ra[1][1] = ray.ra[2][1]

SingleDone == Forward /\ single_point /\ pc = "done" /\ ks >= 2 /\ Len(ray.o) >= 1

\* C7 as stated: with auto-centroid, the geometry translated by t gives the
\* PSF of the untranslated geometry, which is also the PSF of a call given
\* the energy-weighted centroid as pointc_ref; for points (-1,0), (1,0)
\* with equal weights the computed centre is (0,0).
C7_TranslationInvariant ==
    (SingleDone /\ pointc_ref = None /\ SumRa(ray.ra) > 0) =>
        /\ \A t \in TVals :
              SamePsf(forward_integral(Translate(ray.o, t), ray.ra, ps, ks, None, interpolate),
                      Returned)
        /\ SamePsf(forward_integral(ray.o, ray.ra, ps, ks,
                                    WeightedCentroid(ray.o, ray.ra), interpolate),
                   Returned)
        /\ SymmetricPair => pointc[1].x = 0 /\ pointc[1].y = 0

\* C7 amended: with auto-centroid the PSF is that of a call given
\* sum(point * ra) / (sum(ra) + EPSILON) as pointc_ref; a geometry and the
\* centre subtracted from it, translated by the same t, give the same PSF;
\* for points (-1,0), (1,0) with equal weights the computed centre is (0,0).
C7_CentredInvariant ==
    SingleDone =>
        LET c == IF pointc_ref = None THEN GuardedCentroid(ray.o, ray.ra) ELSE pointc_ref
        IN  /\ SamePsf(forward_integral(ray.o, ray.ra, ps, ks, c, interpolate), Returned)
            /\ \A t \in TVals :
                  SamePsf(forward_integral(Translate(ray.o, t), ray.ra, ps, ks,
                                           Moved(c, t), interpolate),
                          Returned)
            /\ (SymmetricPair /\ pointc_ref = None) => pointc[1].x = 0 /\ pointc[1].y = 0

\* Auto-centred: two weighted samples whose centroid is off the origin, and
\* (another run) the pair (-1,0), (1,0).
C7_Witness ==
    /\ SingleDone /\ pointc_ref = None /\ Len(ray.o) = 2
    /\ ray.ra[1][1] > 0 /\ ray.ra[2][1] > 0
    /\ pointc[1].x # 0
    /\ GridSum(psf) > 0

C9_RetainedOnlyShifted ==
    (Forward /\ Handed) =>
        \A s \in Rows : \A j \in Cols :
            ra[s][j] # 0 =>
                /\ points_shift[s][j][1] * pointc[j].d = Centred(s, j)[1] * pd[j]
                /\ points_shift[s][j][2] * pointc[j].d = Centred(s, j)[2] * pd[j]

(***************************************************************************)
(* C10: a direct call with interpolate=False.                              *)
(***************************************************************************)
\* row_f and col_f of sample s: the position counted in pixels of size ps
\* from the top-left lattice point, numerators over ps * pd[1]
PixelRow(s) == Half(ks, ps) * pd[1] - points_shift[s][1][2]

PixelCol(s) == points_shift[s][1][1] + Half(ks, ps) * pd[1]

InLattice(s) ==
    /\ 0 <= PixelRow(s) /\ PixelRow(s) <= (ks - 1) * ps * pd[1]
    /\ 0 <= PixelCol(s) /\ PixelCol(s) <= (ks - 1) * ps * pd[1]

FloorCell(s) == <<PixelRow(s) \div (ps * pd[1]), PixelCol(s) \div (ps * pd[1])>>

\* the lattice points nearest to (row_f, col_f) of sample s on each axis
\* (two on an axis when the sample is midway)
NearestCells(s) ==
    {at \in (0..(ks - 1)) \X (0..(ks - 1)) :
        /\ 2 * Abs(at[1] * ps * pd[1] - PixelRow(s)) <= ps * pd[1]
        /\ 2 * Abs(at[2] * ps * pd[1] - PixelCol(s)) <= ps * pd[1]}

NoInterpolationDone ==
    /\ Direct /\ ~interpolate /\ pc = "done" /\ ks >= 2
    /\ \A s \in Rows : InLattice(s)

\* the cells hold exactly the whole weights of the samples sent to them
WholeWeightsAt(cellOf(_)) ==
    \A at \in DOMAIN psf.cells :
        psf.cells[at] = SumTo([s \in Rows |-> IF cellOf(s) = at THEN ra[s][1] ELSE 0],
                              Len(ra)) * (psf.unit \div RaDen)

\* C10 as stated: the whole ra of each in-window sample is added to one
\* cell, the lattice point nearest to (row_f, col_f).
C10_NearestCell ==
    NoInterpolationDone =>
        \E cellOf \in [Rows -> (0..(ks - 1)) \X (0..(ks - 1))] :
            /\ \A s \in Rows : cellOf[s] \in NearestCells(s)
            /\ LET nearest(s) == cellOf[s] IN WholeWeightsAt(nearest)

\* C10 amended: the whole ra of each in-window sample is added to one cell,
\* the lattice point (floor(row_f), floor(col_f)).
C10_FloorCell == NoInterpolationDone => WholeWeightsAt(FloorCell)

\* A weighted sample past the middle of two lattice points has been put.
C10_Witness ==
    /\ NoInterpolationDone
    /\ \E s \in Rows : ra[s][1] > 0 /\ FloorCell(s) \notin NearestCells(s)

====
